---- MODULE Spec2Model ----
(***************************************************************************)
(* The shared-state synchronisation engine of backend/src/main.rs: the     *)
(* in-memory AppState behind an RwLock, the timer commands, the global     *)
(* timer task, the persisted timer row and the broadcast channel with its  *)
(* WebSocket subscribers; the tables, their uploaded files and the resource *)
(* files, in memory, in the store and on disk, with the RwLock of the state *)
(* and the Mutex of the connection.                                         *)
(*                                                                         *)
(* Time is counted in periods of the timer task (TIMER_BROADCAST_INTERVAL_ *)
(* MS): the interval fires once per period, and handlers run at any point  *)
(* between two firings.  A write scope (state.write() .. drop(state)) is   *)
(* one step: nothing can observe the state while the guard is held.  The   *)
(* broadcast a handler requests after dropping the guard is a second step. *)
(* The handlers of tables and files are modelled from one await of a lock  *)
(* to the next, with the guards they hold in stateLock and dbLock.         *)
(***************************************************************************)
EXTENDS Integers, Sequences, FiniteSets, TLC

VARIABLES
    now,            \* Utc::now(), in timer-task periods since boot
    tickDue,        \* interval.tick() has fired and the task has not yet run
    timer,          \* AppState.timer
    last_remaining, \* the timer task's local last_remaining
    tickerPc,       \* the timer task: "sleep" or "broadcast" (should_broadcast)
    tickers,        \* the number of start_global_timer_task tasks running
    dbTimer,        \* the row of table timer (id = 1)
    ver,            \* number of mutations applied to the state so far
    pc,             \* per request task: "idle" or "broadcast"
    mine,           \* per request task: the version its own write scope left
    wsPc,           \* per subscriber: "closed", "subscribed", "sending",
                    \* "streaming", "ended"
    inbox,          \* per subscriber: broadcast messages not yet received
    received,       \* per subscriber: the messages sent on its session
    lagged,         \* per subscriber: the channel overwrote messages it had
                    \* not received
    opsLeft,        \* handler calls the environment may still issue
    last,           \* history: the last write scope (who, argument, timer before,
                    \*   whether it wrote the timer row and asked for a broadcast)
    bound,          \* history: last configured duration + positive adjustments
    expiries,       \* history: natural-expiry transitions performed
    meja_list,      \* AppState.meja_list: table id -> Meja
    soal_files,     \* AppState.soal_files
    db,             \* the rows of tables meja, files and soal
    disk,           \* the paths that exist under ./storage
    storeUp,        \* whether the connection executes statements (else Err)
    stateLock,      \* the task holding state.write(), 0 if none
    dbLock,         \* the task holding db.lock(), 0 if none
    frame,          \* per request task: the locals of its handler
    nextId,         \* Uuid::new_v4(): ids handed out so far
    done,           \* history: the last request answered, and what it did
    committed,      \* history: the table ids the last boot or regeneration left
    observed        \* history: the table ids the last read scope saw

timerVars == <<timer, last_remaining, tickerPc, tickers, dbTimer, ver>>
taskVars  == <<pc, mine, opsLeft>>
hubVars   == <<wsPc, inbox, received, lagged>>
histVars  == <<last, bound, expiries>>
appVars   == <<meja_list, soal_files>>
storeVars == <<db, disk, storeUp>>
lockVars  == <<stateLock, dbLock>>
callVars  == <<frame, nextId, done>>
obsVars   == <<committed, observed>>
tableVars == <<appVars, storeVars, lockVars, callVars, obsVars>>
vars == <<now, tickDue, timerVars, taskVars, hubVars, histVars, tableVars>>

----------------------------------------------------------------------------
\* Program constants

TIMER_BROADCAST_INTERVAL_MS == 250
MsPerSecond == 1000
SecondsPerMinute == 60
DefaultDuration == 3600
InitialLastRemaining == -1
BROADCAST_CAPACITY == 256

\* Bounds of the model

MaxNow == 5             \* periods the clock runs in Spec
MaxOps == 3             \* handler calls issued in Spec
MaxInitDuration == 2    \* durations (s) of the timer rows an earlier run left
MaxMinutes == 1         \* set_timer: duration_minutes in 0..MaxMinutes
ExpiryMinutes == 1      \* SpecExpiry: set_timer(duration_minutes) in 1..ExpiryMinutes
ExpiryHorizon == 244    \* SpecExpiry: periods the clock runs
RaceOps == 3            \* SpecRace: start, then pause and adjust calls
RaceHorizon == 8        \* SpecRace: periods the clock runs
HubOps == 2             \* SpecHub: handler calls issued
HubMaxNow == 1          \* SpecHub: periods the clock runs
MaxJumlah == 2          \* generate_meja: jumlah in 0..MaxJumlah
TableOps == 3           \* SpecTables: handler calls issued
TableMaxNow == 1        \* SpecTables: periods the clock runs
RegenOps == 2           \* SpecRegen: handler calls issued
UploadOps == 3          \* SpecUpload: handler calls issued
UploadMaxNow == 1       \* SpecUpload: periods the clock runs
FaultOps == 2           \* SpecFault: handler calls issued
DeliverOps == 2         \* SpecDeliver: handler calls issued
DeliverMaxNow == 1      \* SpecDeliver: periods the clock runs
LagOps == 257           \* SpecLag: reset calls issued, one broadcast each

Tasks == {1, 2}          \* request tasks running concurrently
Subs == {1}              \* WebSocket subscribers
AdjustSeconds == {-2, 1}
RaceAdjustSeconds == {60}
HubAdjustSeconds == {-2}
Codes == {"a", "b"}      \* what generate_kode() may return
None == <<>>
Some(x) == <<x>>

----------------------------------------------------------------------------
\* Pure parts of the code

Max(a, b) == IF a >= b THEN a ELSE b

TicksPerSecond == MsPerSecond \div TIMER_BROADCAST_INTERVAL_MS

\* Utc::now().signed_duration_since(started).num_seconds()
num_seconds(started, t) == (t - started) \div TicksPerSecond

StoppedTimer(d) ==
    [is_running |-> FALSE, duration_seconds |-> d,
     remaining_seconds |-> d, started_at |-> None]

\* save_timer_to_db: the UPDATE's parameters
save_timer_to_db(tm) ==
    [is_running |-> IF tm.is_running THEN 1 ELSE 0,
     duration_seconds |-> tm.duration_seconds,
     remaining_seconds |-> tm.remaining_seconds,
     started_at |-> tm.started_at]

\* load_state_from_db: the timer row back into a TimerState
load_state_from_db(row) ==
    [is_running |-> row.is_running # 0,
     duration_seconds |-> row.duration_seconds,
     remaining_seconds |-> row.remaining_seconds,
     started_at |-> row.started_at]

\* Each command: the timer it leaves and whether it wrote the timer row.
set_timer(tm, duration_minutes) ==
    [timer |-> StoppedTimer(duration_minutes * SecondsPerMinute), save |-> TRUE]

start_timer_unguarded(tm, t) ==
    [timer |-> [tm EXCEPT !.is_running = TRUE, !.started_at = Some(t)],
     save |-> TRUE]

start_timer(tm, t) ==
    IF ~tm.is_running /\ tm.remaining_seconds > 0
    THEN [timer |-> [tm EXCEPT !.is_running = TRUE, !.started_at = Some(t)],
          save |-> TRUE]
    ELSE [timer |-> tm, save |-> FALSE]

pause_timer_unclamped(tm, t) ==
    IF tm.is_running
    THEN LET rem == IF tm.started_at # None
                    THEN tm.remaining_seconds - num_seconds(tm.started_at[1], t)
                    ELSE tm.remaining_seconds
         IN [timer |-> [tm EXCEPT !.remaining_seconds = rem,
                                   !.is_running = FALSE, !.started_at = None],
             save |-> TRUE]
    ELSE [timer |-> tm, save |-> FALSE]

pause_timer(tm, t) ==
    IF tm.is_running
    THEN LET rem == IF tm.started_at # None
                    THEN Max(tm.remaining_seconds - num_seconds(tm.started_at[1], t), 0)
                    ELSE tm.remaining_seconds
         IN [timer |-> [tm EXCEPT !.remaining_seconds = rem,
                                   !.is_running = FALSE, !.started_at = None],
             save |-> TRUE]
    ELSE [timer |-> tm, save |-> FALSE]

reset_timer_keep_started_at(tm) ==
    [timer |-> [tm EXCEPT !.remaining_seconds = tm.duration_seconds,
                          !.is_running = FALSE],
     save |-> TRUE]

reset_timer(tm) ==
    [timer |-> [tm EXCEPT !.remaining_seconds = tm.duration_seconds,
                          !.is_running = FALSE, !.started_at = None],
     save |-> TRUE]

adjust_timer_unclamped(tm, seconds, t) ==
    IF tm.is_running
    THEN [timer |-> [tm EXCEPT !.duration_seconds = @ + seconds], save |-> TRUE]
    ELSE [timer |-> [tm EXCEPT !.remaining_seconds = @ + seconds,
                               !.duration_seconds = tm.remaining_seconds + seconds],
          save |-> TRUE]

adjust_timer(tm, seconds, t) ==
    IF tm.is_running
    THEN IF tm.started_at # None
         THEN LET elapsed == num_seconds(tm.started_at[1], t)
                  current_remaining == tm.duration_seconds - elapsed
              IN [timer |-> [tm EXCEPT !.duration_seconds =
                                           current_remaining + seconds + elapsed],
                  save |-> TRUE]
         ELSE [timer |-> tm, save |-> TRUE]
    ELSE LET rem == Max(tm.remaining_seconds + seconds, 0)
         IN [timer |-> [tm EXCEPT !.remaining_seconds = rem,
                                   !.duration_seconds = rem],
             save |-> TRUE]

\* The same pass with the expiry test "remaining < 0".
start_global_timer_task_no_expiry(tm, lastr, t) ==
    IF tm.is_running /\ tm.started_at # None
    THEN LET remaining ==
                 Max(tm.duration_seconds - num_seconds(tm.started_at[1], t), 0)
         IN IF remaining # lastr
            THEN [timer |-> [tm EXCEPT !.remaining_seconds = remaining],
                  last_remaining |-> remaining,
                  should_broadcast |-> TRUE, expired |-> FALSE]
            ELSE [timer |-> tm, last_remaining |-> lastr,
                  should_broadcast |-> FALSE, expired |-> FALSE]
    ELSE [timer |-> tm,
          last_remaining |-> IF tm.is_running THEN lastr ELSE tm.remaining_seconds,
          should_broadcast |-> FALSE, expired |-> FALSE]

\* One pass of the loop body of start_global_timer_task, inside its write scope.
start_global_timer_task(tm, lastr, t) ==
    IF tm.is_running
    THEN IF tm.started_at # None
         THEN LET remaining ==
                      Max(tm.duration_seconds - num_seconds(tm.started_at[1], t), 0)
              IN IF remaining # lastr
                 THEN [timer |-> IF remaining <= 0
                                 THEN [tm EXCEPT !.remaining_seconds = remaining,
                                                 !.is_running = FALSE,
                                                 !.started_at = None]
                                 ELSE [tm EXCEPT !.remaining_seconds = remaining],
                       last_remaining |-> remaining,
                       should_broadcast |-> TRUE,
                       expired |-> remaining <= 0]
                 ELSE [timer |-> tm, last_remaining |-> lastr,
                       should_broadcast |-> FALSE, expired |-> FALSE]
         ELSE [timer |-> tm, last_remaining |-> lastr,
               should_broadcast |-> FALSE, expired |-> FALSE]
    ELSE [timer |-> tm, last_remaining |-> tm.remaining_seconds,
          should_broadcast |-> FALSE, expired |-> FALSE]

\* The remaining time of the timer at time t, as upload_file computes it
TrueRemaining(tm, t) ==
    IF tm.is_running /\ tm.started_at # None
    THEN Max(tm.duration_seconds - num_seconds(tm.started_at[1], t), 0)
    ELSE tm.remaining_seconds

\* conn.execute(..): the statement takes effect, or Err and the rows stay
execute(up, rows, written) == IF up THEN written ELSE rows

\* load_state_from_db: the meja rows into the table map (no files rows yet)
load_meja_list(rows) ==
    [id \in {r.id : r \in rows} |->
        LET r == CHOOSE x \in rows : x.id = id
        IN [nomor |-> r.nomor, kode |-> r.kode, nama_peserta |-> r.nama_peserta,
            files |-> <<>>, last_upload |-> None]]

\* The row of table meja that a Meja is written to
MejaRow(id, m) ==
    [id |-> id, nomor |-> m.nomor, kode |-> m.kode, nama_peserta |-> m.nama_peserta]

MejaRows(ml) == {MejaRow(id, ml[id]) : id \in DOMAIN ml}

\* INSERT INTO meja: id is the PRIMARY KEY and kode is UNIQUE
insert_meja(rows, row) ==
    IF \E r \in rows : r.id = row.id \/ r.kode = row.kode
    THEN rows
    ELSE rows \cup {row}

clear_nothing(ml) == ml

\* state.meja_list.clear()
clear(ml) == [id \in {} |-> ml[id]]

\* get_soal_path().join(filename), get_uploads_path(meja_id).join(filename)
NoPath == [dir |-> "none", meja_id |-> 0, filename |-> ""]

soal_path(filename) == [dir |-> "soal", meja_id |-> 0, filename |-> filename]

uploads_path(meja_id, filename) ==
    [dir |-> "uploads", meja_id |-> meja_id, filename |-> filename]

\* The locals of a handler, and what it has done so far
NoFrame ==
    [op |-> "none", id |-> 0, n |-> 0, i |-> 0, fields |-> <<>>,
     uploaded |-> <<>>, path |-> NoPath, found |-> FALSE, remaining |-> 0,
     mutated |-> FALSE, stored |-> FALSE, failed |-> FALSE, published |-> FALSE]

NoCall ==
    [op |-> "none", id |-> 0, n |-> 0, status |-> "none", uploaded |-> <<>>,
     path |-> NoPath, found |-> FALSE, remaining |-> 0,
     mutated |-> FALSE, stored |-> FALSE, failed |-> FALSE, published |-> FALSE]

success_unless_failed(f) == IF f.failed THEN "error" ELSE "ok"

\* HttpResponse::Ok().json({"success": true}), whatever execute returned
success(f) == "ok"

\* tokio::spawn(start_global_timer_task(timer_shared)): one more timer task
spawn_timer_task(n) == n + 1

\* A ws_handler that starts a timer task for its connection
ws_spawn_timer_task(n) == spawn_timer_task(n)

\* actix_web::rt::spawn in ws_handler: the forwarding loop of the connection
\* and no timer task
ws_spawn(n) == n

\* What the state serialises to: serde_json::to_string(&*state)
Snapshot(kind) ==
    [kind |-> kind, ver |-> ver, timer |-> timer,
     meja_list |-> meja_list, soal_files |-> soal_files]

\* The subscribers that hold a receiver of the broadcast channel
Receivers == {s \in Subs : wsPc[s] \in {"subscribed", "sending", "streaming"}}

\* A send that waits for room in every receiver's backlog
send_when_room(m) ==
    /\ \A s \in Receivers : inbox[s] = <<>>
    /\ inbox' = [s \in Subs |-> IF s \in Receivers THEN Append(inbox[s], m)
                                ELSE inbox[s]]
    /\ UNCHANGED lagged

\* broadcast_tx.send(json): to every receiver subscribed at this moment; the
\* channel keeps BROADCAST_CAPACITY messages and overwrites the oldest one,
\* which a receiver that had not taken it learns from its next recv().
Send(m) ==
    /\ inbox' = [s \in Subs |->
                    IF s \notin Receivers THEN inbox[s]
                    ELSE IF Len(inbox[s]) < BROADCAST_CAPACITY
                    THEN Append(inbox[s], m)
                    ELSE Append(Tail(inbox[s]), m)]
    /\ lagged' = [s \in Subs |->
                     \/ lagged[s]
                     \/ s \in Receivers /\ Len(inbox[s]) = BROADCAST_CAPACITY]

----------------------------------------------------------------------------
\* Initial state: main() loads the state from the store

InitDurations == {DefaultDuration} \cup (0..MaxInitDuration)

InitWith(ops, durations) ==
    /\ now = 0
    /\ tickDue = TRUE
    /\ \E d \in durations : dbTimer = save_timer_to_db(StoppedTimer(d))
    /\ timer = load_state_from_db(dbTimer)
    /\ last_remaining = InitialLastRemaining
    /\ tickerPc = "sleep"
    /\ tickers = spawn_timer_task(0)
    /\ ver = 0
    /\ pc = [t \in Tasks |-> "idle"]
    /\ mine = [t \in Tasks |-> 0]
    /\ wsPc = [s \in Subs |-> "closed"]
    /\ inbox = [s \in Subs |-> <<>>]
    /\ received = [s \in Subs |-> <<>>]
    /\ lagged = [s \in Subs |-> FALSE]
    /\ opsLeft = ops
    /\ last = [op |-> "boot", arg |-> 0, pre |-> timer, wrote |-> FALSE,
               failed |-> FALSE, pub |-> FALSE]
    /\ bound = timer.duration_seconds
    /\ expiries = 0

\* The tables an earlier run left in the store (ids 1..n), no files.
InitTables(rows) ==
    /\ db = [meja |-> rows, files |-> {}, soal |-> {}]
    /\ meja_list = load_meja_list(db.meja)
    /\ soal_files = <<>>
    /\ disk = {}
    /\ storeUp = TRUE
    /\ stateLock = 0
    /\ dbLock = 0
    /\ frame = [t \in Tasks |-> NoFrame]
    /\ nextId = Cardinality(rows) + 1
    /\ done = NoCall
    /\ committed = DOMAIN meja_list
    /\ observed = [tables |-> DOMAIN meja_list, committed |-> committed]

Init == InitWith(MaxOps, InitDurations) /\ InitTables({})

----------------------------------------------------------------------------
\* Handlers: the write scope of a timer command

\* main() spawns the timer task before it binds the server, and the first
\* interval.tick() completes at once: requests are served after the first pass.
Serving == ~(now = 0 /\ tickDue)

CanReadUnguarded == TRUE

\* state.read().await returns: no write guard is held.  (The read scopes of
\* the handlers and of the broadcasts are single steps.)
CanRead == stateLock = 0

\* The subscribers whose ws_handler holds its read guard across the await of
\* the initial send
Readers == {s \in Subs : wsPc[s] = "sending"}

\* state.write().await returns: no write guard and no read guard is held.
CanWrite == stateLock = 0 /\ Readers = {}

\* What a read scope sees of the table set
Observe == observed' = [tables |-> DOMAIN meja_list, committed |-> committed]

\* The handler returns its response.
Respond(t, f, status) ==
    /\ done' = [op |-> f.op, id |-> f.id, n |-> f.n, status |-> status,
                uploaded |-> f.uploaded, path |-> f.path, found |-> f.found,
                remaining |-> f.remaining, mutated |-> f.mutated,
                stored |-> f.stored, failed |-> f.failed,
                published |-> f.published]
    /\ frame' = [frame EXCEPT ![t] = NoFrame]
    /\ pc' = [pc EXCEPT ![t] = "idle"]

\* The commands take state.write(), then db.lock() inside it, and drop both.
WriteScope(t, op, arg, res, newBound) ==
    /\ Serving
    /\ pc[t] = "idle"
    /\ opsLeft > 0
    /\ CanWrite /\ dbLock = 0
    /\ opsLeft' = opsLeft - 1
    /\ timer' = res.timer
    /\ dbTimer' = IF res.save
                  THEN execute(storeUp, dbTimer, save_timer_to_db(res.timer))
                  ELSE dbTimer
    /\ ver' = ver + 1
    /\ pc' = [pc EXCEPT ![t] = "broadcast"]
    /\ mine' = [mine EXCEPT ![t] = ver + 1]
    /\ last' = [op |-> op, arg |-> arg, pre |-> timer, wrote |-> res.save,
                failed |-> res.save /\ ~storeUp, pub |-> TRUE]
    /\ bound' = newBound
    /\ UNCHANGED <<now, tickDue, last_remaining, tickerPc, tickers, hubVars, expiries,
                   tableVars>>

SetTimer(t, m) ==
    WriteScope(t, "set_timer", m, set_timer(timer, m), m * SecondsPerMinute)

StartTimer(t) ==
    WriteScope(t, "start_timer", 0, start_timer(timer, now), bound)

PauseTimer(t) ==
    WriteScope(t, "pause_timer", 0, pause_timer(timer, now), bound)

ResetTimer(t) ==
    WriteScope(t, "reset_timer", 0, reset_timer(timer), bound)

AdjustTimer(t, s) ==
    WriteScope(t, "adjust_timer", s, adjust_timer(timer, s, now), bound + Max(s, 0))

\* broadcast_state: read scope, serialise, send
BroadcastPayloadOwnWrite(t) == [Snapshot("state") EXCEPT !.ver = mine[t]]

BroadcastPayload(t) == Snapshot("state")

broadcast_state(t) ==
    /\ pc[t] = "broadcast"
    /\ CanRead
    /\ Send(BroadcastPayload(t))
    /\ Observe
    /\ mine' = [mine EXCEPT ![t] = 0]
    /\ LET f == [frame[t] EXCEPT !.published = TRUE]
       IN IF f.op = "upload_soal" /\ f.fields # <<>>
          THEN /\ pc' = [pc EXCEPT ![t] = "us_file"]
               /\ frame' = [frame EXCEPT ![t] = f]
               /\ UNCHANGED done
          ELSE IF f.op = "none"
          THEN /\ pc' = [pc EXCEPT ![t] = "idle"]
               /\ UNCHANGED <<frame, done>>
          ELSE Respond(t, f, success(f))
    /\ UNCHANGED <<now, tickDue, timerVars, opsLeft, wsPc, received, histVars,
                   appVars, storeVars, lockVars, nextId, committed>>

----------------------------------------------------------------------------
\* The timer task

Tick ==
    /\ tickers > 0
    /\ tickDue
    /\ tickerPc = "sleep"
    /\ CanWrite
    /\ LET r == start_global_timer_task(timer, last_remaining, now)
       IN /\ timer' = r.timer
          /\ last_remaining' = r.last_remaining
          /\ tickerPc' = IF r.should_broadcast THEN "broadcast" ELSE "sleep"
          /\ ver' = IF r.should_broadcast THEN ver + 1 ELSE ver
          /\ expiries' = IF r.expired THEN expiries + 1 ELSE expiries
          /\ last' = [op |-> "tick", arg |-> 0, pre |-> timer, wrote |-> FALSE,
                      failed |-> FALSE, pub |-> r.should_broadcast]
    /\ tickDue' = FALSE
    /\ UNCHANGED <<now, tickers, dbTimer, taskVars, hubVars, bound, tableVars>>

broadcast_timer_only ==
    /\ tickerPc = "broadcast"
    /\ CanRead
    /\ Send(Snapshot("timer_only"))
    /\ Observe
    /\ tickerPc' = "sleep"
    /\ UNCHANGED <<now, tickDue, timer, last_remaining, tickers, dbTimer, ver,
                   taskVars, wsPc, received, histVars, appVars, storeVars, lockVars,
                   callVars, committed>>

\* One period passes and the interval fires again.
Advance(limit) ==
    /\ ~tickDue
    /\ now < limit
    /\ now' = now + 1
    /\ tickDue' = TRUE
    /\ UNCHANGED <<timerVars, taskVars, hubVars, histVars, tableVars>>

----------------------------------------------------------------------------
\* ws_handler

WsSubscribe(s) ==
    /\ Serving
    /\ wsPc[s] = "closed"
    /\ received[s] = <<>>
    /\ wsPc' = [wsPc EXCEPT ![s] = "subscribed"]
    /\ UNCHANGED <<now, tickDue, timerVars, taskVars, inbox, received, lagged,
                   histVars, tableVars>>

\* state.read().await, to_string, and session.text(json) is started: the read
\* guard lives until the end of the block.
WsInitial(s) ==
    /\ wsPc[s] = "subscribed"
    /\ CanRead
    /\ received' = [received EXCEPT ![s] = Append(@, Snapshot("initial"))]
    /\ Observe
    /\ wsPc' = [wsPc EXCEPT ![s] = "sending"]
    /\ UNCHANGED <<now, tickDue, timerVars, taskVars, inbox, lagged, histVars,
                   appVars, storeVars, lockVars, callVars, committed>>

\* session.text(json).await completes (its result is dropped), the read guard
\* is dropped and the receive loop is spawned.
WsInitialSent(s) ==
    /\ wsPc[s] = "sending"
    /\ wsPc' = [wsPc EXCEPT ![s] = "streaming"]
    /\ tickers' = ws_spawn(tickers)
    /\ UNCHANGED <<now, tickDue, timer, last_remaining, tickerPc, dbTimer, ver,
                   taskVars, inbox, received, lagged, histVars, tableVars>>

CanRecvBeforeInitial(s) == wsPc[s] \in {"subscribed", "sending", "streaming"}

\* The receive loop is spawned after the initial state was sent.
CanRecv(s) == wsPc[s] = "streaming"

\* rx.recv(): Ok(text) is forwarded on the session; Err(_), which a receiver
\* that lagged gets, breaks the loop, and the task ends with its receiver.
WsRecv(s) ==
    /\ CanRecv(s)
    /\ IF lagged[s]
       THEN /\ wsPc' = [wsPc EXCEPT ![s] = "ended"]
            /\ inbox' = [inbox EXCEPT ![s] = <<>>]
            /\ UNCHANGED received
       ELSE /\ inbox[s] # <<>>
            /\ received' = [received EXCEPT ![s] = Append(@, Head(inbox[s]))]
            /\ inbox' = [inbox EXCEPT ![s] = Tail(@)]
            /\ UNCHANGED wsPc
    /\ UNCHANGED <<now, tickDue, timerVars, taskVars, lagged, histVars, tableVars>>

\* The peer closes, the stream ends or a send on the session fails: break.
WsClose(s) ==
    /\ wsPc[s] = "streaming"
    /\ wsPc' = [wsPc EXCEPT ![s] = "ended"]
    /\ inbox' = [inbox EXCEPT ![s] = <<>>]
    /\ lagged' = [lagged EXCEPT ![s] = FALSE]
    /\ UNCHANGED <<now, tickDue, timerVars, taskVars, received, histVars,
                   tableVars>>

----------------------------------------------------------------------------
\* Handlers of tables and files, from one await of a lock to the next

\* A request reaches its handler.
Call(t) ==
    /\ Serving
    /\ pc[t] = "idle"
    /\ opsLeft > 0
    /\ opsLeft' = opsLeft - 1

\* The write guard is dropped and the handler goes on to broadcast_state.
ReleaseState(t, op, arg, f) ==
    /\ stateLock' = 0
    /\ ver' = ver + 1
    /\ mine' = [mine EXCEPT ![t] = ver + 1]
    /\ last' = [op |-> op, arg |-> arg, pre |-> timer, wrote |-> FALSE,
                failed |-> f.failed, pub |-> TRUE]
    /\ pc' = [pc EXCEPT ![t] = "broadcast"]

\* What a statement adds to the handler's record
Executed(f) == [f EXCEPT !.stored = @ \/ storeUp, !.failed = @ \/ ~storeUp]

\* generate_meja: state.write().await
GenerateMeja(t, n) ==
    /\ Call(t)
    /\ CanWrite
    /\ stateLock' = t
    /\ frame' = [frame EXCEPT ![t] =
                    [NoFrame EXCEPT !.op = "generate_meja", !.n = n, !.i = 1]]
    /\ pc' = [pc EXCEPT ![t] = "gm_db"]
    /\ UNCHANGED <<now, tickDue, timerVars, mine, hubVars, histVars, appVars,
                   storeVars, dbLock, nextId, done, obsVars>>

\* db.lock().await, the two DELETEs and meja_list.clear()
GmDb(t) ==
    /\ pc[t] = "gm_db"
    /\ dbLock = 0
    /\ dbLock' = t
    /\ db' = execute(storeUp, db, [db EXCEPT !.files = {}, !.meja = {}])
    /\ meja_list' = clear(meja_list)
    /\ frame' = [frame EXCEPT ![t] = [Executed(@) EXCEPT !.mutated = TRUE]]
    /\ pc' = [pc EXCEPT ![t] = "gm_loop"]
    /\ UNCHANGED <<now, tickDue, timerVars, mine, opsLeft, hubVars, histVars,
                   soal_files, disk, storeUp, stateLock, nextId, done, obsVars>>

\* One iteration of the loop: a fresh id, generate_kode(), INSERT, insert
GmInsert(t) ==
    /\ pc[t] = "gm_loop"
    /\ frame[t].i <= frame[t].n
    /\ \E kode \in Codes :
          LET id == nextId
              m == [nomor |-> frame[t].i, kode |-> kode, nama_peserta |-> None,
                    files |-> <<>>, last_upload |-> None]
              rows == insert_meja(db.meja, MejaRow(id, m))
          IN /\ db' = [db EXCEPT !.meja = execute(storeUp, @, rows)]
             /\ meja_list' = (id :> m) @@ meja_list
             /\ frame' = [frame EXCEPT ![t] =
                             [@ EXCEPT !.i = @ + 1,
                                       !.stored = @ \/ (storeUp /\ rows # db.meja),
                                       !.failed = @ \/ ~storeUp \/ rows = db.meja]]
    /\ nextId' = nextId + 1
    /\ UNCHANGED <<now, tickDue, timerVars, taskVars, hubVars, histVars,
                   soal_files, disk, storeUp, lockVars, done, obsVars>>

\* drop(db); drop(state)
GmRelease(t) ==
    /\ pc[t] = "gm_loop"
    /\ frame[t].i > frame[t].n
    /\ dbLock' = 0
    /\ ReleaseState(t, "generate_meja", frame[t].n, frame[t])
    /\ committed' = DOMAIN meja_list
    /\ UNCHANGED <<now, tickDue, timer, last_remaining, tickerPc, tickers,
                   dbTimer,
                   opsLeft, hubVars, bound, expiries, appVars, storeVars,
                   callVars, observed>>

\* update_peserta: state.write().await and the lookup
UpdatePeserta(t, id, nama) ==
    /\ Call(t)
    /\ CanWrite
    /\ LET f == [NoFrame EXCEPT !.op = "update_peserta", !.id = id,
                                !.found = id \in DOMAIN meja_list]
       IN IF f.found
          THEN /\ meja_list' = [meja_list EXCEPT ![id].nama_peserta = Some(nama)]
               /\ stateLock' = t
               /\ frame' = [frame EXCEPT ![t] = [f EXCEPT !.mutated = TRUE]]
               /\ pc' = [pc EXCEPT ![t] = "up_db"]
               /\ UNCHANGED done
          ELSE /\ Respond(t, f, "not_found")
               /\ UNCHANGED <<meja_list, stateLock>>
    /\ UNCHANGED <<now, tickDue, timerVars, mine, hubVars, histVars, soal_files,
                   storeVars, dbLock, nextId, obsVars>>

\* db.lock().await, the UPDATE, drop(db), drop(state)
UpDb(t) ==
    /\ pc[t] = "up_db"
    /\ dbLock = 0
    /\ LET id == frame[t].id
           rows == {IF r.id = id
                    THEN [r EXCEPT !.nama_peserta = meja_list[id].nama_peserta]
                    ELSE r : r \in db.meja}
       IN db' = [db EXCEPT !.meja = execute(storeUp, @, rows)]
    /\ frame' = [frame EXCEPT ![t] = Executed(@)]
    /\ ReleaseState(t, "update_peserta", frame[t].id, frame'[t])
    /\ UNCHANGED <<now, tickDue, timer, last_remaining, tickerPc, tickers,
                   dbTimer,
                   opsLeft, hubVars, bound, expiries, appVars, disk, storeUp,
                   dbLock, nextId, done, obsVars>>

SoalIndex(sid) == {i \in 1..Len(soal_files) : soal_files[i].id = sid}

RemoveAt(q, i) == SubSeq(q, 1, i - 1) \o SubSeq(q, i + 1, Len(q))

\* delete_soal: state.write().await, the lookup, remove and remove_file
DeleteSoal(t, sid) ==
    /\ Call(t)
    /\ CanWrite
    /\ LET f == [NoFrame EXCEPT !.op = "delete_soal", !.id = sid,
                                !.found = SoalIndex(sid) # {}]
       IN IF f.found
          THEN LET idx == CHOOSE i \in SoalIndex(sid) :
                              \A j \in SoalIndex(sid) : i <= j
               IN /\ soal_files' = RemoveAt(soal_files, idx)
                  /\ disk' = disk \ {soal_files[idx].path}
                  /\ stateLock' = t
                  /\ frame' = [frame EXCEPT ![t] = [f EXCEPT !.mutated = TRUE]]
                  /\ pc' = [pc EXCEPT ![t] = "ds_db"]
                  /\ UNCHANGED <<ver, mine, last>>
          ELSE /\ frame' = [frame EXCEPT ![t] = f]
               /\ ReleaseState(t, "delete_soal", sid, f)
               /\ UNCHANGED <<soal_files, disk>>
    /\ UNCHANGED <<now, tickDue, timer, last_remaining, tickerPc, tickers,
                   dbTimer,
                   hubVars, bound, expiries, meja_list, db, storeUp, dbLock,
                   nextId, done, obsVars>>

\* db.lock().await, the DELETE, and both guards dropped
DsDb(t) ==
    /\ pc[t] = "ds_db"
    /\ dbLock = 0
    /\ db' = [db EXCEPT !.soal =
                 execute(storeUp, @, {r \in @ : r.id # frame[t].id})]
    /\ frame' = [frame EXCEPT ![t] = Executed(@)]
    /\ ReleaseState(t, "delete_soal", frame[t].id, frame'[t])
    /\ UNCHANGED <<now, tickDue, timer, last_remaining, tickerPc, tickers,
                   dbTimer,
                   opsLeft, hubVars, bound, expiries, appVars, disk, storeUp,
                   dbLock, nextId, done, obsVars>>

\* upload_soal: the request with its multipart fields (filenames)
UploadSoal(t, names) ==
    /\ Call(t)
    /\ frame' = [frame EXCEPT ![t] =
                    [NoFrame EXCEPT !.op = "upload_soal", !.fields = names]]
    /\ pc' = [pc EXCEPT ![t] = "us_file"]
    /\ UNCHANGED <<now, tickDue, timerVars, mine, hubVars, histVars, appVars,
                   storeVars, lockVars, nextId, done, obsVars>>

\* The next field is written to ./storage/soal/<filename>
UsFile(t) ==
    /\ pc[t] = "us_file"
    /\ frame[t].fields # <<>>
    /\ disk' = disk \cup {soal_path(Head(frame[t].fields))}
    /\ frame' = [frame EXCEPT ![t].path = soal_path(Head(frame[t].fields))]
    /\ pc' = [pc EXCEPT ![t] = "us_db"]
    /\ UNCHANGED <<now, tickDue, timerVars, mine, opsLeft, hubVars, histVars,
                   appVars, db, storeUp, lockVars, nextId, done, obsVars>>

upload_soal_keeps_db(t) == t

\* drop(db) after the INSERT: the holder of the connection afterwards
upload_soal_drop_db(t) == 0

\* db.lock().await, INSERT INTO soal, drop(db)
UsDb(t) ==
    /\ pc[t] = "us_db"
    /\ dbLock = 0
    /\ db' = [db EXCEPT !.soal =
                 execute(storeUp, @, @ \cup {[id |-> nextId, path |-> frame[t].path]})]
    /\ dbLock' = upload_soal_drop_db(t)
    /\ frame' = [frame EXCEPT ![t] = [Executed(@) EXCEPT !.id = nextId]]
    /\ nextId' = nextId + 1
    /\ pc' = [pc EXCEPT ![t] = "us_state"]
    /\ UNCHANGED <<now, tickDue, timerVars, mine, opsLeft, hubVars, histVars,
                   appVars, disk, storeUp, stateLock, done, obsVars>>

\* state.write().await, soal_files.push, drop(state)
UsState(t) ==
    /\ pc[t] = "us_state"
    /\ CanWrite
    /\ soal_files' = Append(soal_files, [id |-> frame[t].id, path |-> frame[t].path])
    /\ dbLock' = IF dbLock = t THEN 0 ELSE dbLock
    /\ frame' = [frame EXCEPT ![t] =
                    [@ EXCEPT !.fields = Tail(@), !.mutated = TRUE]]
    /\ ReleaseState(t, "upload_soal", frame[t].id, frame[t])
    /\ UNCHANGED <<now, tickDue, timer, last_remaining, tickerPc, tickers,
                   dbTimer,
                   opsLeft, hubVars, bound, expiries, meja_list, storeVars,
                   nextId, done, obsVars>>

\* upload_file: the read scope with the lookup and the expiry test
UploadFile(t, id, fields) ==
    /\ Call(t)
    /\ CanRead
    /\ Observe
    /\ LET f == [NoFrame EXCEPT !.op = "upload_file", !.id = id,
                                !.fields = fields,
                                !.found = id \in DOMAIN meja_list,
                                !.remaining = TrueRemaining(timer, now)]
       IN IF ~f.found
          THEN Respond(t, f, "not_found")
          ELSE IF f.remaining <= 0 /\ timer.duration_seconds > 0
          THEN Respond(t, f, "time_expired")
          ELSE /\ frame' = [frame EXCEPT ![t] = f]
               /\ pc' = [pc EXCEPT ![t] = "uf_field"]
               /\ UNCHANGED done
    /\ UNCHANGED <<now, tickDue, timerVars, mine, hubVars, histVars, appVars,
                   storeVars, lockVars, nextId, committed>>

\* The next field is streamed to ./storage/uploads/<meja_id>/<filename>; past
\* MAX_FILE_SIZE the file is removed and the handler returns.
UfField(t) ==
    /\ pc[t] = "uf_field"
    /\ LET f == frame[t]
       IN IF f.fields = <<>>
          THEN /\ pc' = [pc EXCEPT ![t] = "uf_state"]
               /\ UNCHANGED <<disk, frame, done>>
          ELSE LET path == uploads_path(f.id, Head(f.fields).name)
               IN IF Head(f.fields).size_exceeded
                  THEN /\ disk' = disk \ {path}
                       /\ Respond(t, [f EXCEPT !.path = path], "too_large")
                  ELSE /\ disk' = disk \cup {path}
                       /\ frame' = [frame EXCEPT ![t].path = path]
                       /\ pc' = [pc EXCEPT ![t] = "uf_db"]
                       /\ UNCHANGED done
    /\ UNCHANGED <<now, tickDue, timerVars, mine, opsLeft, hubVars, histVars,
                   appVars, db, storeUp, lockVars, nextId, obsVars>>

\* db.lock().await, INSERT INTO files, drop(db), uploaded_files.push
UfDb(t) ==
    /\ pc[t] = "uf_db"
    /\ dbLock = 0
    /\ LET f == frame[t]
           file == [id |-> nextId, path |-> f.path, uploaded_at |-> now]
       IN /\ db' = [db EXCEPT !.files =
                       execute(storeUp, @,
                               @ \cup {[id |-> file.id, meja_id |-> f.id,
                                        path |-> file.path,
                                        uploaded_at |-> file.uploaded_at]})]
          /\ frame' = [frame EXCEPT ![t] =
                          [Executed(f) EXCEPT !.uploaded = Append(@, file),
                                              !.fields = Tail(@)]]
    /\ nextId' = nextId + 1
    /\ pc' = [pc EXCEPT ![t] = "uf_field"]
    /\ UNCHANGED <<now, tickDue, timerVars, mine, opsLeft, hubVars, histVars,
                   appVars, disk, storeUp, lockVars, done, obsVars>>

\* state.write().await, files.extend and last_upload, drop(state)
UfState(t) ==
    /\ pc[t] = "uf_state"
    /\ CanWrite
    /\ LET f == frame[t]
           hit == f.id \in DOMAIN meja_list
       IN /\ meja_list' =
                IF hit
                THEN [meja_list EXCEPT ![f.id].files = @ \o f.uploaded,
                                       ![f.id].last_upload = Some(now)]
                ELSE meja_list
          /\ frame' = [frame EXCEPT ![t].mutated = hit]
          /\ ReleaseState(t, "upload_file", f.id, f)
    /\ UNCHANGED <<now, tickDue, timer, last_remaining, tickerPc, tickers,
                   dbTimer,
                   opsLeft, hubVars, bound, expiries, soal_files, storeVars,
                   dbLock, nextId, done, obsVars>>

\* The connection starts or stops executing statements (disk full, file locked).
StoreFault ==
    /\ storeUp' = ~storeUp
    /\ UNCHANGED <<now, tickDue, timerVars, taskVars, hubVars, histVars, appVars,
                   db, disk, lockVars, callVars, obsVars>>

----------------------------------------------------------------------------
\* The timer engine: the commands, issued one request at a time, and the timer
\* task; nobody is subscribed.
Next ==
    \/ \E m \in 0..MaxMinutes : SetTimer(1, m)
    \/ StartTimer(1)
    \/ PauseTimer(1)
    \/ ResetTimer(1)
    \/ \E s \in AdjustSeconds : AdjustTimer(1, s)
    \/ broadcast_state(1)
    \/ Tick
    \/ broadcast_timer_only
    \/ Advance(MaxNow)

Spec == Init /\ [][Next]_vars

\* configure(d) then start(), and the clock runs past d seconds.
InitExpiry == InitWith(2, InitDurations) /\ InitTables({})

NextExpiry ==
    \/ \E m \in 1..ExpiryMinutes : opsLeft = 2 /\ SetTimer(1, m)
    \/ opsLeft = 1 /\ StartTimer(1)
    \/ broadcast_state(1)
    \/ Tick
    \/ broadcast_timer_only
    \/ Advance(ExpiryHorizon)

SpecExpiry == InitExpiry /\ [][NextExpiry]_vars

\* A timer is started; then pause() and adjust(+60) requests run concurrently.
InitRace == InitWith(RaceOps, InitDurations) /\ InitTables({})

NextRace ==
    \/ opsLeft = RaceOps /\ timer.remaining_seconds > 0 /\ StartTimer(1)
    \/ opsLeft < RaceOps /\ PauseTimer(1)
    \/ \E s \in RaceAdjustSeconds : opsLeft < RaceOps /\ AdjustTimer(2, s)
    \/ \E t \in Tasks : broadcast_state(t)
    \/ Tick
    \/ broadcast_timer_only
    \/ Advance(RaceHorizon)

SpecRace == InitRace /\ [][NextRace]_vars

\* Concurrent timer commands, the timer task and a subscriber joining.
InitHub == InitWith(HubOps, {DefaultDuration, MaxInitDuration}) /\ InitTables({})

NextHub ==
    \/ \E t \in Tasks : StartTimer(t)
    \/ \E t \in Tasks, s \in HubAdjustSeconds : AdjustTimer(t, s)
    \/ \E t \in Tasks : broadcast_state(t)
    \/ Tick
    \/ broadcast_timer_only
    \/ Advance(HubMaxNow)
    \/ \E s \in Subs : WsSubscribe(s)
    \/ \E s \in Subs : WsInitial(s)
    \/ \E s \in Subs : WsInitialSent(s)
    \/ \E s \in Subs : WsRecv(s)

SpecHub == InitHub /\ [][NextHub]_vars

\* The hub with connections that may end, under the runtime's scheduling: a
\* ws_handler and a forwarding task that can take a step eventually take it.
InitDeliver ==
    InitWith(DeliverOps, {MaxInitDuration}) /\ InitTables({})

NextDeliver ==
    \/ StartTimer(1)
    \/ \E s \in HubAdjustSeconds : AdjustTimer(1, s)
    \/ broadcast_state(1)
    \/ Tick
    \/ broadcast_timer_only
    \/ Advance(DeliverMaxNow)
    \/ \E s \in Subs : WsSubscribe(s)
    \/ \E s \in Subs : WsInitial(s)
    \/ \E s \in Subs : WsInitialSent(s)
    \/ \E s \in Subs : WsRecv(s)
    \/ \E s \in Subs : WsClose(s)

Scheduled ==
    \A s \in Subs :
        /\ WF_vars(WsInitial(s))
        /\ WF_vars(WsInitialSent(s))
        /\ WF_vars(WsRecv(s))

SpecDeliver == InitDeliver /\ [][NextDeliver]_vars /\ Scheduled

\* A subscriber whose forwarding task does not get to run while reset()
\* requests keep publishing, until the channel has overwritten a message.
InitLag == InitWith(LagOps, {DefaultDuration}) /\ InitTables({})

NextLag ==
    \/ ResetTimer(1)
    \/ broadcast_state(1)
    \/ Tick
    \/ \E s \in Subs : opsLeft = LagOps /\ WsSubscribe(s)
    \/ \E s \in Subs : WsInitial(s)
    \/ \E s \in Subs : WsInitialSent(s)
    \/ \E s \in Subs : lagged[s] /\ WsRecv(s)

SpecLag == InitLag /\ [][NextLag]_vars

----------------------------------------------------------------------------
\* Tables and files: regeneration, name updates, uploads and resource files
\* on two request tasks, with a timer command and the timer task.
Field(name, size_exceeded) == [name |-> name, size_exceeded |-> size_exceeded]

UploadRequests ==
    {<<>>, <<Field("x", FALSE)>>, <<Field("x", TRUE)>>,
     <<Field("x", FALSE), Field("y", TRUE)>>}

SoalRequests == {<<"x">>, <<"x", "y">>}

\* The requests of SpecTables
TableJumlah == {1}
TableUploads == {<<Field("x", FALSE)>>}
TableSoal == {<<"x">>}

Participants == {"n"}

\* The ids a request may name: those of the state, and one that is absent.
MejaIds == DOMAIN meja_list \cup {0}

SoalIds == {soal_files[i].id : i \in 1..Len(soal_files)} \cup {0}

InitTablesSpec == InitWith(TableOps, {DefaultDuration}) /\ InitTables({})

NextTables ==
    \/ \E t \in Tasks, n \in TableJumlah : GenerateMeja(t, n)
    \/ \E t \in Tasks : GmDb(t)
    \/ \E t \in Tasks : GmInsert(t)
    \/ \E t \in Tasks : GmRelease(t)
    \/ \E t \in Tasks, id \in MejaIds, nama \in Participants : UpdatePeserta(t, id, nama)
    \/ \E t \in Tasks : UpDb(t)
    \/ \E t \in Tasks, id \in MejaIds, fields \in TableUploads : UploadFile(t, id, fields)
    \/ \E t \in Tasks : UfField(t)
    \/ \E t \in Tasks : UfDb(t)
    \/ \E t \in Tasks : UfState(t)
    \/ \E t \in Tasks, names \in TableSoal : UploadSoal(t, names)
    \/ \E t \in Tasks : UsFile(t)
    \/ \E t \in Tasks : UsDb(t)
    \/ \E t \in Tasks : UsState(t)
    \/ \E t \in Tasks, sid \in SoalIds : DeleteSoal(t, sid)
    \/ \E t \in Tasks : DsDb(t)
    \/ \E t \in Tasks : ResetTimer(t)
    \/ \E t \in Tasks : broadcast_state(t)
    \/ Tick
    \/ Advance(TableMaxNow)

SpecTables == InitTablesSpec /\ [][NextTables]_vars

----------------------------------------------------------------------------
\* Regeneration of the tables against name updates and uploads, on two
\* request tasks; one table is there from an earlier run.
OneTable == {[id |-> 1, nomor |-> 1, kode |-> "a", nama_peserta |-> None]}

InitRegen == InitWith(RegenOps, {DefaultDuration}) /\ InitTables(OneTable)

NextRegen ==
    \/ \E t \in Tasks, n \in 0..MaxJumlah : GenerateMeja(t, n)
    \/ \E t \in Tasks : GmDb(t)
    \/ \E t \in Tasks : GmInsert(t)
    \/ \E t \in Tasks : GmRelease(t)
    \/ \E t \in Tasks, id \in MejaIds, nama \in Participants : UpdatePeserta(t, id, nama)
    \/ \E t \in Tasks : UpDb(t)
    \/ \E t \in Tasks, id \in MejaIds, fields \in TableUploads : UploadFile(t, id, fields)
    \/ \E t \in Tasks : UfField(t)
    \/ \E t \in Tasks : UfDb(t)
    \/ \E t \in Tasks : UfState(t)
    \/ \E t \in Tasks : broadcast_state(t)
    \/ Tick

SpecRegen == InitRegen /\ [][NextRegen]_vars

----------------------------------------------------------------------------
\* Uploads to a table against the timer: the commands on one request task,
\* upload_file on the other.
InitUpload ==
    InitWith(UploadOps, {DefaultDuration, MaxInitDuration}) /\ InitTables(OneTable)

NextUpload ==
    \/ \E m \in 0..MaxMinutes : SetTimer(1, m)
    \/ StartTimer(1)
    \/ \E s \in AdjustSeconds : AdjustTimer(1, s)
    \/ \E id \in MejaIds, fields \in UploadRequests : UploadFile(2, id, fields)
    \/ UfField(2)
    \/ UfDb(2)
    \/ UfState(2)
    \/ \E t \in Tasks : broadcast_state(t)
    \/ Tick
    \/ broadcast_timer_only
    \/ Advance(UploadMaxNow)

SpecUpload == InitUpload /\ [][NextUpload]_vars

----------------------------------------------------------------------------
\* Every state-mutating handler, one request at a time, on a connection that
\* may refuse any statement.
InitFault == InitWith(FaultOps, {DefaultDuration}) /\ InitTables(OneTable)

NextFault ==
    \/ StoreFault
    \/ \E m \in 0..MaxMinutes : SetTimer(1, m)
    \/ StartTimer(1)
    \/ PauseTimer(1)
    \/ ResetTimer(1)
    \/ \E s \in AdjustSeconds : AdjustTimer(1, s)
    \/ \E n \in TableJumlah : GenerateMeja(1, n)
    \/ GmDb(1)
    \/ GmInsert(1)
    \/ GmRelease(1)
    \/ \E id \in MejaIds, nama \in Participants : UpdatePeserta(1, id, nama)
    \/ UpDb(1)
    \/ \E id \in MejaIds, fields \in TableUploads : UploadFile(1, id, fields)
    \/ UfField(1)
    \/ UfDb(1)
    \/ UfState(1)
    \/ \E names \in TableSoal : UploadSoal(1, names)
    \/ UsFile(1)
    \/ UsDb(1)
    \/ UsState(1)
    \/ \E sid \in SoalIds : DeleteSoal(1, sid)
    \/ DsDb(1)
    \/ broadcast_state(1)
    \/ Tick

SpecFault == InitFault /\ [][NextFault]_vars

----------------------------------------------------------------------------
\* The write scope taken last was the timer task's, at the current time.
JustTicked == last.op = "tick" /\ ~tickDue

\* C1: after any sequence of start, pause, reset and adjust with ticks in
\* between, on a timer configured with a non-negative duration,
\* remaining_seconds is >= 0 and <= the last configured duration plus the sum
\* of the positive adjustments.
C1_RemainingWithinBounds ==
    /\ timer.remaining_seconds >= 0
    /\ timer.remaining_seconds <= bound

\* C2: a tick that finds the timer Running with duration_seconds minus the
\* elapsed seconds <= 0 leaves it Stopped with remaining_seconds = 0 and
\* started_at = None, whatever the handlers did since the previous tick.
C2_NaturalExpiryAlwaysHappens ==
    (JustTicked /\ last.pre.is_running /\ last.pre.started_at # None
        /\ last.pre.duration_seconds - num_seconds(last.pre.started_at[1], now) <= 0)
    => (~timer.is_running /\ timer.remaining_seconds = 0 /\ timer.started_at = None)

\* C4: every transition that changes a persisted timer field, the timer
\* task's included, writes the timer row before the write scope is released:
\* between write scopes the persisted row equals the in-memory timer.
C4_PersistedRowEqualsTimer == dbTimer = save_timer_to_db(timer)

\* C8: a tick publishes only if it changed at least one field of the
\* in-memory timer.
C8_TickPublishesOnlyChanges ==
    (last.op = "tick" /\ last.pub) => timer # last.pre

\* C10: start_timer on a Running timer or on one with remaining_seconds <= 0,
\* and pause_timer on a Stopped timer, leave the four timer fields unchanged and
\* write no timer row.
C10_StartPauseNoOp ==
    (\/ last.op = "start_timer"
           /\ (last.pre.is_running \/ last.pre.remaining_seconds <= 0)
     \/ last.op = "pause_timer" /\ ~last.pre.is_running)
    => (timer = last.pre /\ ~last.wrote)

C10_Witness ==
    /\ last.op = "start_timer"
    /\ last.pre.is_running
    /\ timer.is_running

\* C20: the timer is Stopped (is_running = false, started_at = None) or
\* Running (is_running = true, started_at = Some(t)): is_running holds exactly
\* when started_at is set, after any interleaving of set, start, pause, reset,
\* adjust and ticks from a Stopped timer.
C20_RunningIffStarted == timer.is_running <=> (timer.started_at # None)

\* A Running timer was reset.
C20_Witness ==
    /\ last.op = "reset_timer"
    /\ last.pre.is_running /\ last.pre.started_at # None
    /\ ~timer.is_running

\* C21: adjust(delta) on a Running timer sets duration_seconds to
\* duration_seconds + delta and leaves started_at, is_running (and the cached
\* remaining_seconds) as they were; on a Stopped timer it sets remaining_seconds
\* to max(0, remaining_seconds + delta) and duration_seconds to that value; in
\* neither case is remaining_seconds negative afterwards.
C21_AdjustKeepsAnchorAndClamps ==
    last.op = "adjust_timer"
    => /\ timer.remaining_seconds >= 0
       /\ IF last.pre.is_running
          THEN timer = [last.pre EXCEPT !.duration_seconds = @ + last.arg]
          ELSE timer = [last.pre EXCEPT
                           !.remaining_seconds = Max(@ + last.arg, 0),
                           !.duration_seconds =
                               Max(last.pre.remaining_seconds + last.arg, 0)]

\* A Stopped timer was adjusted below zero, and a Running one was adjusted.
C21_Witness ==
    /\ last.op = "adjust_timer"
    /\ \/ ~last.pre.is_running /\ last.pre.remaining_seconds + last.arg < 0
       \/ last.pre.is_running /\ timer.duration_seconds < last.pre.duration_seconds

\* C22: pause() on a Running timer stores the true remaining time of the pause
\* instant, max(0, duration_seconds - elapsed since started_at), whatever the
\* ticks have cached in remaining_seconds and whatever adjust did meanwhile.
C22_PauseStoresTrueRemaining ==
    [][(last'.op = "pause_timer" /\ timer.is_running /\ ~timer'.is_running)
       => timer'.remaining_seconds = TrueRemaining(timer, now)]_vars

\* C23: pause() followed by start() gives no time back: the time from the
\* start to natural expiry, duration_seconds, is the remaining_seconds the
\* timer had when it was started.
C23_ResumeGivesNoTimeBack ==
    (last.op = "start_timer" /\ last.wrote)
    => timer.duration_seconds = last.pre.remaining_seconds

----------------------------------------------------------------------------
\* SpecExpiry

\* C3: after configure(d) and start(), once d seconds have elapsed the timer
\* task has driven the timer to Stopped with remaining_seconds = 0, by exactly
\* one expiry transition, which it publishes; ticks after it publish nothing.
C3_ExpiresExactlyOnce ==
    /\ expiries <= 1
    /\ (opsLeft = 0 /\ timer.is_running /\ JustTicked) => TrueRemaining(timer, now) > 0
    /\ (opsLeft = 0 /\ ~timer.is_running)
          => (expiries = 1 /\ timer.remaining_seconds = 0 /\ timer.started_at = None)
    /\ (last.op = "tick" /\ last.pre.is_running /\ ~timer.is_running) => last.pub
    /\ (last.op = "tick" /\ ~last.pre.is_running) => ~last.pub

C3_Witness ==
    /\ opsLeft = 0
    /\ expiries = 1
    /\ ~timer.is_running /\ timer.remaining_seconds = 0
    /\ last.op = "tick" /\ ~last.pre.is_running
    /\ tickerPc = "sleep"

----------------------------------------------------------------------------
\* SpecRace

\* C9: adjust(+60) and pause() running concurrently against a Running timer,
\* in either order and with ticks anywhere, never leave remaining_seconds
\* negative.
C9_RaceNeverNegative == timer.remaining_seconds >= 0

\* Both have acted: the timer is paused with time left, 60 seconds were added.
C9_Witness ==
    /\ opsLeft = 0
    /\ ~timer.is_running
    /\ timer.remaining_seconds > 0
    /\ \E s \in RaceAdjustSeconds : timer.duration_seconds >= s
    /\ last.op \in {"pause_timer", "adjust_timer"}

----------------------------------------------------------------------------
\* SpecHub

Abs(x) == IF x >= 0 THEN x ELSE -x

\* Seconds of remaining time that one period of the timer task accounts for.
TickSlackSeconds == (TIMER_BROADCAST_INTERVAL_MS + MsPerSecond - 1) \div MsPerSecond

Broadcasts(s) == {i \in 1..Len(received[s]) : received[s][i].kind # "initial"}

\* C5: the broadcasts a subscriber receives arrive in the order in which the
\* mutations they reflect were applied: never one reflecting a later mutation
\* followed by one that does not reflect it.
C5_BroadcastsInMutationOrder ==
    \A s \in Subs : \A i, j \in Broadcasts(s) :
        i < j => received[s][i].ver <= received[s][j].ver

C5_Witness ==
    \E s \in Subs : \E i, j \in Broadcasts(s) :
        i < j /\ received[s][i].ver < received[s][j].ver

\* C6: the first message a subscriber receives is the snapshot ws_handler read
\* itself; no broadcast overtakes it and no second one follows.
C6_FirstMessageIsInitialSnapshot ==
    \A s \in Subs : \A i \in 1..Len(received[s]) :
        (received[s][i].kind = "initial") <=> (i = 1)

\* A broadcast published before the initial read is delivered after it.
C6_Witness ==
    \E s \in Subs :
        /\ Len(received[s]) >= 2
        /\ received[s][1].kind = "initial"
        /\ received[s][2].ver <= received[s][1].ver

\* C7: the initial snapshot of a joining subscriber shows, for a Running
\* timer, a remaining_seconds within one tick period of
\* max(0, duration_seconds - elapsed) at the time it is read.
C7_InitialSnapshotConsistentWithNow ==
    [][\A s \in Subs :
          (wsPc[s] = "subscribed" /\ wsPc'[s] = "sending")
          => LET m == received'[s][1]
             IN m.timer.is_running
                => Abs(m.timer.remaining_seconds - TrueRemaining(m.timer, now))
                       <= TickSlackSeconds]_vars

\* The State a message carries.
StateOf(m) ==
    [timer |-> m.timer, meja_list |-> m.meja_list, soal_files |-> m.soal_files]

\* C24: after its initial snapshot a subscriber receives no message that
\* reflects an older state than that snapshot.
C24_NothingOlderThanInitial ==
    \A s \in Subs :
        \A i \in 2..Len(received[s]) :
            \/ received[s][i].ver >= received[s][1].ver
            \/ StateOf(received[s][i]) = StateOf(received[s][1])

\* C29: no task holds a read or write scope of the state while it awaits a
\* send on a subscriber's connection, so while a subscriber's send is awaited
\* the write scope is free unless a handler or the timer task holds it.
C29_SendNeverDelaysWriteScope ==
    \A s \in Subs : (wsPc[s] = "sending" /\ stateLock = 0) => CanWrite

----------------------------------------------------------------------------
\* SpecDeliver

\* The broadcasts published to subscriber s, and those forwarded to it
Forwarded(s) == Cardinality(Broadcasts(s))
Published(s) == Forwarded(s) + Len(inbox[s])

\* At most one broadcast per handler call and per pass of the timer task
MaxPublished == DeliverOps + DeliverMaxNow + 1

\* A broadcast that has read access to the state can publish at once.
PublisherNeverBlocks ==
    /\ \A t \in Tasks :
           (pc[t] = "broadcast" /\ CanRead) => ENABLED broadcast_state(t)
    /\ (tickerPc = "broadcast" /\ CanRead) => ENABLED broadcast_timer_only

\* No handler and no pass of the timer task has a broadcast to publish.
Settled == (\A t \in Tasks : pc[t] = "idle") /\ tickerPc = "sleep"

\* A connected subscriber that has been sent everything published to it
UpToDate(s) ==
    /\ wsPc[s] \in {"sending", "streaming"}
    /\ inbox[s] = <<>>
    /\ ~lagged[s]

SettledSubscribersCurrent ==
    Settled
    => \A s \in Subs :
           UpToDate(s)
           => StateOf(received[s][Len(received[s])]) = StateOf(Snapshot("state"))

C31_ExactlyOneTimerTask == tickers = 1

\* A subscriber has connected and gone, the handler calls were made and the
\* timer task has made a pass after the first period.
C31_Witness ==
    /\ \E s \in Subs : wsPc[s] = "ended"
    /\ opsLeft = 0
    /\ now > 0
    /\ last.op = "tick"

----------------------------------------------------------------------------
\* SpecLag

\* C28: the backlog of a subscriber never exceeds the channel's capacity, and
\* a subscriber that fell further behind and got the missed-messages signal
\* is still served: its forwarding loop has not ended.
C28_LaggedSubscriberRecovers ==
    \A s \in Subs :
        /\ Len(inbox[s]) <= BROADCAST_CAPACITY
        /\ lagged[s] => wsPc[s] # "ended"

----------------------------------------------------------------------------
\* SpecRegen

\* The last write scope released was a regeneration's and none is open.
AfterGenerate == last.op = "generate_meja" /\ stateLock = 0

\* C11: after generate_meja the tables of the in-memory set have pairwise
\* distinct join codes, and the persisted meja rows are exactly the in-memory
\* tables.
C11_CodesDistinctAndPersisted ==
    AfterGenerate
    => /\ \A a, b \in DOMAIN meja_list :
             a # b => meja_list[a].kode # meja_list[b].kode
       /\ db.meja = MejaRows(meja_list)

\* C12: generate_meja with jumlah = n leaves exactly n tables, numbered 1..n,
\* each without files and without a participant name; and a file is only ever
\* reachable from the table it was uploaded to, never one of an old table.
C12_RegenerationReplacesTables ==
    /\ AfterGenerate
       => /\ Cardinality(DOMAIN meja_list) = last.arg
          /\ {meja_list[id].nomor : id \in DOMAIN meja_list} = 1..last.arg
          /\ \A id \in DOMAIN meja_list :
                /\ meja_list[id].files = <<>>
                /\ meja_list[id].nama_peserta = None
    /\ \A id \in DOMAIN meja_list :
          \A k \in 1..Len(meja_list[id].files) :
             meja_list[id].files[k].path.meja_id = id

\* An upload had attached its file to a table, and a regeneration with the
\* largest jumlah replaced that table.
C12_Witness ==
    /\ AfterGenerate
    /\ last.arg = MaxJumlah
    /\ \E t \in Tasks : frame[t].op = "generate_meja"
    /\ done.op = "upload_file" /\ done.status = "ok" /\ done.mutated
    /\ done.id \notin DOMAIN meja_list

\* C13: no read scope and no broadcast sees the table set in the middle of a
\* regeneration: the ids it sees are those the last completed regeneration (or
\* the boot) left.
C13_RegenerationAtomicForReaders == observed.tables = observed.committed

\* A handler is about to take its read scope for broadcast_state while a
\* regeneration has inserted some of its tables.
C13_Witness ==
    \E t, u \in Tasks :
        /\ pc[t] = "broadcast"
        /\ pc[u] = "gm_loop"
        /\ frame[u].i > 1 /\ frame[u].i <= frame[u].n

----------------------------------------------------------------------------
\* SpecUpload

\* No table or file handler is between its request and its response.
Quiet == \A t \in Tasks : frame[t].op = "none"

\* The ids of the File records the answered request had built
DoneFileIds == {done.uploaded[k].id : k \in 1..Len(done.uploaded)}

\* The ids of the File records reachable from the state
StateFileIds ==
    UNION {{meja_list[id].files[k].id : k \in 1..Len(meja_list[id].files)} :
              id \in DOMAIN meja_list}

C26_NoFileRegisteredAfterExpiry ==
    [][\A t \in Tasks :
          (/\ pc[t] = "uf_state"
           /\ last.op \in {"tick", "pause_timer", "adjust_timer"}
           /\ frame[t].remaining > 0
           /\ frame[t].uploaded # <<>>
           /\ frame'[t].mutated)
          => TrueRemaining(timer, now) > 0]_vars

\* The latest uploaded_at of a non-empty sequence of File records
MaxUploadedAt(files) ==
    CHOOSE at \in {files[k].uploaded_at : k \in DOMAIN files} :
        \A k \in DOMAIN files : files[k].uploaded_at <= at

\* C30: last_upload of every table is derived from its files: None exactly
\* when the table has no File record, and otherwise the latest uploaded_at of
\* its files, also after an upload request that registers no file.
C30_LastUploadDerivedFromFiles ==
    \A id \in DOMAIN meja_list :
        LET m == meja_list[id]
        IN IF m.files = <<>>
           THEN m.last_upload = None
           ELSE m.last_upload = Some(MaxUploadedAt(m.files))

\* No request is being handled by any task.
NoHandlerInProgress == Quiet /\ \A t \in Tasks : pc[t] = "idle"

\* C25: whenever no handler is in progress, every File row of the store
\* belongs to a table of the State and is among that table's files, and every
\* File of the State has a row in the store.
C25_FileRowsAgreeWithState ==
    NoHandlerInProgress
    => /\ \A r \in db.files :
              /\ r.meja_id \in DOMAIN meja_list
              /\ \E k \in DOMAIN meja_list[r.meja_id].files :
                     meja_list[r.meja_id].files[k].id = r.id
       /\ \A id \in StateFileIds : \E r \in db.files : r.id = id

----------------------------------------------------------------------------
\* SpecTables

\* The handler of t is at state.write().await or state.read().await.
WaitsForState(t) == pc[t] \in {"us_state", "uf_state", "broadcast"}

\* The handler of t is at db.lock().await.
WaitsForDb(t) == pc[t] \in {"gm_db", "up_db", "ds_db", "us_db", "uf_db"}

Blocked(t) ==
    \/ WaitsForState(t) /\ stateLock # 0
    \/ WaitsForDb(t) /\ dbLock # 0

\* C16: the locks are taken state first, connection second: no task waits for
\* a read or write scope of the state while it holds the connection, and
\* whenever requests are in progress one of them can take its next step.
C16_LockOrderNoDeadlock ==
    /\ \A t \in Tasks : ~(dbLock = t /\ WaitsForState(t))
    /\ (\E t \in Tasks : pc[t] # "idle")
       => (\E t \in Tasks : pc[t] # "idle" /\ ~Blocked(t))

\* upload_soal has written its soal row and waits for the write scope that a
\* regeneration holds together with the connection.
C16_Witness ==
    \E t, u \in Tasks :
        /\ pc[t] = "us_state"
        /\ pc[u] = "gm_loop"
        /\ stateLock = u /\ dbLock = u

\* C17: a handler persists its delta while it holds the write scope in which
\* it mutated the state, never before it has taken that scope: every step that
\* changes the rows of meja, files or soal is a step of the task holding the
\* write scope.
C17_PersistInsideWriteScope ==
    [][db' # db
       => \E t \in Tasks : stateLock = t /\ frame'[t] # frame[t]]_vars

\* C18: update_peserta, upload_file and delete_soal naming an id that the state
\* does not hold answer NotFound, change neither the state nor the store and
\* publish nothing.
C18_AbsentIdRejected ==
    (done.op \in {"update_peserta", "upload_file", "delete_soal"} /\ ~done.found)
    => /\ done.status = "not_found"
       /\ ~done.mutated
       /\ ~done.stored
       /\ ~done.published

----------------------------------------------------------------------------
\* SpecFault

\* The ids of the resource files of the state
StateSoalIds == {soal_files[i].id : i \in 1..Len(soal_files)}

\* The mutation of the request answered last is in the state.
Applied ==
    CASE done.op = "generate_meja" ->
             /\ Cardinality(DOMAIN meja_list) = done.n
             /\ {meja_list[id].nomor : id \in DOMAIN meja_list} = 1..done.n
      [] done.op = "update_peserta" ->
             /\ done.id \in DOMAIN meja_list
             /\ meja_list[done.id].nama_peserta # None
      [] done.op = "upload_file" ->
             /\ DoneFileIds # {}
             /\ DoneFileIds \subseteq StateFileIds
      [] done.op = "upload_soal" -> done.id \in StateSoalIds
      [] done.op = "delete_soal" -> done.id \notin StateSoalIds
      [] OTHER -> FALSE

\* C19: a store write that fails is absorbed: the mutation of the handler stays
\* in the state, the broadcast is published and the handler answers success;
\* for the timer commands, for regeneration, name update, uploads and resource
\* delete.
C19_StoreFailureAbsorbed ==
    /\ (done.failed /\ Quiet)
       => (done.status = "ok" /\ done.published /\ Applied)
    /\ (last.failed /\ last.op \in {"set_timer", "start_timer", "pause_timer",
                                    "reset_timer", "adjust_timer"})
       => /\ last.pub
          /\ last.op = "set_timer" => timer = set_timer(last.pre, last.arg).timer
          /\ last.op = "reset_timer" => timer = reset_timer(last.pre).timer
          /\ last.op = "start_timer" => timer.is_running /\ ~last.pre.is_running
          /\ last.op = "pause_timer" => ~timer.is_running /\ last.pre.is_running
          /\ last.op = "adjust_timer"
                => timer = adjust_timer(last.pre, last.arg, now).timer

\* The UPDATE of a name update failed: the row has no name, the table has one,
\* and the handler has answered.
C19_Witness ==
    /\ done.op = "update_peserta"
    /\ done.failed /\ ~done.stored
    /\ Quiet
    /\ done.status = "ok"
    /\ db.meja # MejaRows(meja_list)

====
